---------------------------- MODULE Spec2Model ----------------------------
(***************************************************************************)
(* Campus-mobile: the shuttle-stop polling view (ShuttleStop.js), the      *)
(* helpers of util/general (militaryToAMPM, the distance comparators, the  *)
(* reload animation) and the DiningService fetcher.                        *)
(*                                                                         *)
(* JavaScript strings are modelled as sequences of one-character strings,  *)
(* so that substring, replace and concatenation are computed as the code   *)
(* computes them.                                                          *)
(***************************************************************************)
EXTENDS Integers, Sequences, FiniteSets, TLC

VARIABLES
    \* util/general.militaryToAMPM
    tfIn,       \* the argument `time`
    tfOut,      \* what the call produced: a returned string or a thrown error
    tfPc,       \* "ready" | "done" ("off" when the helper is not exercised)
    \* the distance comparators and the sort that uses them
    srIn,       \* the sequence of located entities to rank
    srOut,      \* the ranked sequence
    srPc,       \* "ready" | "done" ("off" when the ranking is not exercised)
    \* DiningService.FetchDining
    fResp,      \* the response the network will give to the request
    fPc,        \* "idle" | "waiting" | "settled" ("off" when not exercised)
    fRequests,  \* number of requests issued by the call
    fOutcome,   \* the settled promise: fulfilled with a value or rejected
    \* ShuttleStopContainer (one view instance at a time) and the arrivals store
    now,        \* the clock, in ms
    mounted,    \* whether the view is mounted
    stopID,     \* props.stopID of the mounted view
    timer,      \* when the interval armed by this.setInterval fires next
    session,    \* history: how many views have been mounted, naming the poll session
    startedAt,  \* history: when the current session's startShuttleWatch ran
    attempts,   \* history: calls of tryUpdateStop in the current session
    pending,    \* the fetches issued and not yet completed
    store,      \* state.shuttle.stops[stopID].arrivals
    last,       \* history: the last event of the view, the clock or the network
    \* the reload indicator: the Animated.Value handed to the reload animation
    anim,       \* its value and the timing animation running on it, if any
    animOp      \* history: the last reload-animation call made on it

tfVars == <<tfIn, tfOut, tfPc>>
srVars == <<srIn, srOut, srPc>>
fVars == <<fResp, fPc, fRequests, fOutcome>>
viewVars == <<mounted, stopID, timer, session, startedAt, attempts, pending, store>>
animVars == <<anim, animOp>>
pureVars == <<tfVars, srVars, fVars>>
vars == <<pureVars, now, viewVars, last, animVars>>

-----------------------------------------------------------------------------
(* JavaScript values as far as militaryToAMPM needs them *)

Digits == {"0", "1", "2", "3", "4", "5", "6", "7", "8", "9"}

DigitVal(c) ==
    CASE c = "0" -> 0 [] c = "1" -> 1 [] c = "2" -> 2 [] c = "3" -> 3
      [] c = "4" -> 4 [] c = "5" -> 5 [] c = "6" -> 6 [] c = "7" -> 7
      [] c = "8" -> 8 [] c = "9" -> 9

DigitChar(n) ==
    CASE n = 0 -> "0" [] n = 1 -> "1" [] n = 2 -> "2" [] n = 3 -> "3"
      [] n = 4 -> "4" [] n = 5 -> "5" [] n = 6 -> "6" [] n = 7 -> "7"
      [] n = 8 -> "8" [] n = 9 -> "9"

\* A JavaScript value: undefined, a string or a number (NaN is its own tag).
Undefined == [t |-> "undef", s |-> <<>>, n |-> 0]
Str(s) == [t |-> "str", s |-> s, n |-> 0]
Num(n) == [t |-> "num", s |-> <<>>, n |-> n]
NaN == [t |-> "nan", s |-> <<>>, n |-> 0]

RECURSIVE DecimalValue(_)
DecimalValue(s) ==
    IF s = <<>> THEN 0
    ELSE 10 * DecimalValue(SubSeq(s, 1, Len(s) - 1)) + DigitVal(s[Len(s)])

\* JsToNumber: a string of digits is its decimal value ("" is 0), any other
\* string and undefined are NaN.
JsToNumber(v) ==
    CASE v.t = "num" -> v
      [] v.t = "nan" -> NaN
      [] v.t = "undef" -> NaN
      [] v.t = "str" ->
            IF \A i \in 1..Len(v.s) : v.s[i] \in Digits
            THEN Num(DecimalValue(v.s))
            ELSE NaN

RECURSIVE NatToString(_)
NatToString(n) ==
    IF n < 10 THEN <<DigitChar(n)>>
    ELSE NatToString(n \div 10) \o <<DigitChar(n % 10)>>

\* JsToString, as string concatenation applies it to its operands.
JsToString(v) ==
    CASE v.t = "str" -> v.s
      [] v.t = "num" -> IF v.n < 0 THEN <<"-">> \o NatToString(-v.n)
                        ELSE NatToString(v.n)
      [] v.t = "nan" -> <<"N", "a", "N">>
      [] v.t = "undef" -> <<"u", "n", "d", "e", "f", "i", "n", "e", "d">>

\* v < k and v > k for a number k: both are false when v converts to NaN.
JsLess(v, k) == LET x == JsToNumber(v) IN x.t = "num" /\ x.n < k
JsGreater(v, k) == LET x == JsToNumber(v) IN x.t = "num" /\ x.n > k

\* String.prototype.substring(a, b) with 0 <= a <= b, end clamped to the length.
Substring(s, a, b) == SubSeq(s, a + 1, IF b < Len(s) THEN b ELSE Len(s))

\* String.prototype.replace(c, ''): the first occurrence of c is removed.
RemoveFirst(s, c) ==
    IF \E i \in 1..Len(s) : s[i] = c
    THEN LET i == CHOOSE j \in 1..Len(s) :
                     s[j] = c /\ \A k \in 1..(j - 1) : s[k] # c
         IN SubSeq(s, 1, i - 1) \o SubSeq(s, i + 1, Len(s))
    ELSE s

\* String.prototype.replace(/^0/, ''): one leading zero is removed.
StripLeadingZero(s) ==
    IF Len(s) > 0 /\ s[1] = "0" THEN SubSeq(s, 2, Len(s)) ELSE s

Returned(s) == [kind |-> "return", value |-> s]
Thrown == [kind |-> "throw", value |-> <<"T", "y", "p", "e", "E", "r", "r", "o", "r">>]

-----------------------------------------------------------------------------
(* util/general.militaryToAMPM *)

\* lines 262 and 267: the first five characters, colon and one leading zero removed
NormalizeMilitary(time) ==
    StripLeadingZero(RemoveFirst(Substring(time, 0, 5), ":"))

\* lines 269-275: the hour and minute parts; both stay undefined unless the
\* normalized string has 3 or 4 characters
SplitHH(militaryTime) ==
    IF Len(militaryTime) = 3 THEN Str(Substring(militaryTime, 0, 1))
    ELSE IF Len(militaryTime) = 4 THEN Str(Substring(militaryTime, 0, 2))
    ELSE Undefined

SplitMM(militaryTime) ==
    IF Len(militaryTime) = 3 THEN Str(Substring(militaryTime, 1, 3))
    ELSE IF Len(militaryTime) = 4 THEN Str(Substring(militaryTime, 2, 4))
    ELSE Undefined

AmPmAtOrBelow12(militaryTimeHH) ==
    IF JsLess(militaryTimeHH, 13) THEN <<"a", "m">> ELSE <<"p", "m">>

\* lines 277-281
AmPm(militaryTimeHH) ==
    IF JsLess(militaryTimeHH, 12) THEN <<"a", "m">> ELSE <<"p", "m">>

\* lines 283-289: hours above 12 become a number 12 less; the string '0' becomes '12'
HourTo12(militaryTimeHH) ==
    LET reduced == IF JsGreater(militaryTimeHH, 12)
                   THEN Num(JsToNumber(militaryTimeHH).n - 12)
                   ELSE militaryTimeHH
    IN IF reduced = Str(<<"0">>) THEN Str(<<"1", "2">>) ELSE reduced

\* lines 291-293
DropZeroMinutes(militaryTimeMM) ==
    IF militaryTimeMM = Str(<<"0", "0">>) THEN Str(<<>>) ELSE militaryTimeMM

militaryToAMPM(time) ==
    IF time # <<>>
    THEN LET militaryTime == NormalizeMilitary(time)
             militaryTimeAMPM == AmPm(SplitHH(militaryTime))
             militaryTimeHH == HourTo12(SplitHH(militaryTime))
             militaryTimeMM == DropZeroMinutes(SplitMM(militaryTime))
         IN \* line 295: reading .length of undefined raises a TypeError
            IF militaryTimeMM.t = "undef" THEN Thrown
            ELSE IF Len(militaryTimeMM.s) > 0
            THEN Returned(JsToString(militaryTimeHH) \o <<":">>
                          \o militaryTimeMM.s \o militaryTimeAMPM)
            ELSE Returned(JsToString(militaryTimeHH) \o militaryTimeAMPM)
    ELSE Returned(<<>>)

-----------------------------------------------------------------------------
(* The inputs militaryToAMPM is applied to *)

TwoDigits(n) == <<DigitChar(n \div 10), DigitChar(n % 10)>>

\* "HHMM" and "HH:MM" for every hour 00..23 and minute 00..59
WellFormedTimes ==
    {TwoDigits(hh) \o TwoDigits(mm) : hh \in 0..23, mm \in 0..59}
    \cup {TwoDigits(hh) \o <<":">> \o TwoDigits(mm) : hh \in 0..23, mm \in 0..59}

MaxShortLen == 3

ShortAlphabet == {"0", "1", "2", "5", ":"}

\* every string of at most MaxShortLen characters over ShortAlphabet, "" included
ShortTimes ==
    UNION {[1..n -> ShortAlphabet] : n \in 0..MaxShortLen}

NoOutput == [kind |-> "none", value |-> <<>>]

TfIdle == tfIn = <<>> /\ tfOut = NoOutput /\ tfPc = "off"

\* one call of militaryToAMPM(time)
Convert ==
    /\ tfPc = "ready"
    /\ tfOut' = militaryToAMPM(tfIn)
    /\ tfPc' = "done"
    /\ UNCHANGED tfIn

-----------------------------------------------------------------------------
(* Claim-side vocabulary for the time format *)

IsWellFormedTime(s) ==
    /\ Len(s) \in {4, 5}
    /\ Len(s) = 5 => s[3] = ":"
    /\ \A i \in 1..Len(s) : (Len(s) = 5 /\ i = 3) \/ s[i] \in Digits
    /\ DecimalValue(SubSeq(s, 1, 2)) \in 0..23
    /\ DecimalValue(SubSeq(s, Len(s) - 1, Len(s))) \in 0..59

HourOf(s) == DecimalValue(SubSeq(s, 1, 2))
MinuteText(s) == SubSeq(s, Len(s) - 1, Len(s))

\* h + (":" + MM unless MM is "00") + suffix, as C7 words it
DisplayOf(s) ==
    LET hh == HourOf(s)
        h == IF hh % 12 = 0 THEN 12 ELSE hh % 12
        minutes == IF MinuteText(s) = <<"0", "0">> THEN <<>>
                   ELSE <<":">> \o MinuteText(s)
        suffix == IF hh >= 12 THEN <<"p", "m">> ELSE <<"a", "m">>
    IN NatToString(h) \o minutes \o suffix

\* the normalized form of a non-empty input has fewer than 3 characters
IsShortTime(s) == s # <<>> /\ Len(NormalizeMilitary(s)) < 3

-----------------------------------------------------------------------------
(* util/general: the distance comparators, and the ranking that sorts with them *)

sortNearbyMarkersReversed(a, b) ==
    IF a.distance < b.distance THEN 1
    ELSE IF a.distance > b.distance THEN -1
    ELSE 0

\* lines 350-358
sortNearbyMarkers(a, b) ==
    IF a.distance < b.distance THEN -1
    ELSE IF a.distance > b.distance THEN 1
    ELSE 0

\* lines 334-338: the comparator dynamicSort(property) returns, applied to a and b
dynamicSort(property, a, b) ==
    IF a[property] < b[property] THEN -1
    ELSE IF a[property] > b[property] THEN 1
    ELSE 0

Compare(comparator, a, b) ==
    IF comparator = "sortNearbyMarkers" THEN sortNearbyMarkers(a, b)
    ELSE dynamicSort("distance", a, b)

\* Array.prototype.sort(comparator), a stable sort: each element is inserted
\* behind the elements the comparator does not place after it.
RECURSIVE InsertSorted(_, _, _)
InsertSorted(comparator, sorted, x) ==
    IF sorted = <<>> THEN <<x>>
    ELSE IF Compare(comparator, sorted[Len(sorted)], x) > 0
         THEN InsertSorted(comparator, SubSeq(sorted, 1, Len(sorted) - 1), x)
              \o <<sorted[Len(sorted)]>>
         ELSE sorted \o <<x>>

RECURSIVE rank(_, _)
rank(comparator, entities) ==
    IF entities = <<>> THEN <<>>
    ELSE InsertSorted(comparator,
                      rank(comparator, SubSeq(entities, 1, Len(entities) - 1)),
                      entities[Len(entities)])

MaxLen == 4
MaxDistance == 2

\* the sequences of at most MaxLen located entities; id is the input position
EntitySequences ==
    UNION {{[i \in 1..n |-> [id |-> i, distance |-> d[i]]] :
                d \in [1..n -> 0..MaxDistance]} : n \in 0..MaxLen}

NoRanking == [byMarkers |-> <<>>, byDynamic |-> <<>>]

SrIdle == srIn = <<>> /\ srOut = NoRanking /\ srPc = "off"

\* one ranking of srIn with each comparator
Rank ==
    /\ srPc = "ready"
    /\ srOut' = [byMarkers |-> rank("sortNearbyMarkers", srIn),
                 byDynamic |-> rank("dynamicSort", srIn)]
    /\ srPc' = "done"
    /\ UNCHANGED srIn

-----------------------------------------------------------------------------
(* DiningService.FetchDining *)

Absent == "<absent>"
ErrorMessages == {Absent, "", "no data", "server down"}
Results == {Absent, "[]", "r1", "r2"}
Transports == {"ok", "network-error", "bad-json"}

\* what the network gives back: whether fetch() and response.json() succeed, and
\* the parsed body's errorMessage and GetDiningInfoResult fields
Responses ==
    [transport : Transports, errorMessage : ErrorMessages, result : Results]

Fulfilled(v) == [state |-> "fulfilled", value |-> v]
Rejected(e) == [state |-> "rejected", value |-> e]
Pending == [state |-> "pending", value |-> Absent]

\* JavaScript truthiness of a string-or-undefined field
Truthy(field) == field # Absent /\ field # ""

FetchDiningIgnoresError(resp) ==
    IF resp.transport = "network-error" THEN Rejected("network-error")
    ELSE IF resp.transport = "bad-json" THEN Rejected("SyntaxError")
    ELSE Fulfilled(resp.result)

FetchDiningResultFirst(resp) ==
    IF resp.transport = "network-error" THEN Rejected("network-error")
    ELSE IF resp.transport = "bad-json" THEN Rejected("SyntaxError")
    ELSE IF Truthy(resp.result) THEN Fulfilled(resp.result)
    ELSE IF Truthy(resp.errorMessage) THEN Rejected(resp.errorMessage)
    ELSE Fulfilled(resp.result)

\* lines 365-377: the promise FetchDining returns, once the response is in
FetchDining(resp) ==
    IF resp.transport = "network-error" THEN Rejected("network-error")
    ELSE IF resp.transport = "bad-json" THEN Rejected("SyntaxError")
    ELSE IF Truthy(resp.errorMessage) THEN Rejected(resp.errorMessage)
    ELSE Fulfilled(resp.result)

NoResponse == [transport |-> "ok", errorMessage |-> Absent, result |-> Absent]

FIdle == fResp = NoResponse /\ fPc = "off" /\ fRequests = 0 /\ fOutcome = Pending

\* line 365: FetchDining() issues its request
FetchCall ==
    /\ fPc = "idle"
    /\ fPc' = "waiting"
    /\ fRequests' = fRequests + 1
    /\ UNCHANGED <<fResp, fOutcome, tfVars, srVars, now, viewVars, last, animVars>>

\* lines 370-377: the response arrives and the promise settles; nothing in the
\* chain catches a failure or issues the request again
FetchSettle ==
    /\ fPc = "waiting"
    /\ fOutcome' = FetchDining(fResp)
    /\ fPc' = "settled"
    /\ UNCHANGED <<fResp, fRequests, tfVars, srVars, now, viewVars, last, animVars>>

-----------------------------------------------------------------------------
(* ShuttleStop.js: the view that polls the arrivals of its stop *)

stopUpdateInterval == 6000

\* the clock advances in half poll intervals, MaxSteps times at most
Step == stopUpdateInterval \div 2
MaxSteps == 5
MaxSessions == 2

Stops == {"A", "B"}
NoStop == "<none>"
NoTimer == 0 - 1

\* the responses the arrivals endpoint is let to give: both failure kinds, an
\* error message with and without a result beside it, and differing results
PollResponses ==
    {r \in Responses : r.errorMessage \in {Absent, "no data"}
                       /\ r.result \in {Absent, "r1", "r2"}}

Event(type) == [type |-> type, stop |-> NoStop, late |-> FALSE, failed |-> FALSE]

\* the dispatched updateArrivals(sid): one fetch of the stop's arrivals is issued
updateArrivals(sid) ==
    pending' = pending \cup {[stop |-> sid, session |-> session, at |-> now]}

\* lines 38-42 and 113-119: tryUpdateStop reads props.stopID and dispatches
\* updateArrivals(stopID), whatever the earlier dispatches have come to
tryUpdateStop ==
    /\ updateArrivals(stopID)
    /\ attempts' = attempts + 1

startShuttleWatchPollsFirst ==
    /\ timer' = now + stopUpdateInterval
    /\ pending' = pending \cup {[stop |-> stopID', session |-> session', at |-> now]}
    /\ attempts' = 1

\* lines 31-36: startShuttleWatch arms the interval and does nothing else
startShuttleWatch ==
    /\ timer' = now + stopUpdateInterval
    /\ pending' = pending
    /\ attempts' = 0

\* lines 26-29: a view for stop sid is mounted; componentDidMount starts the watch
Mount(sid) ==
    /\ ~mounted
    /\ session < MaxSessions
    /\ mounted' = TRUE
    /\ stopID' = sid
    /\ session' = session + 1
    /\ startedAt' = now
    /\ startShuttleWatch
    /\ last' = Event("mount")
    /\ UNCHANGED <<now, store, animVars, pureVars>>

\* line 24: TimerMixin clears the view's intervals when the view unmounts; the
\* view defines no componentWillUnmount of its own
Unmount ==
    /\ mounted
    /\ mounted' = FALSE
    /\ timer' = NoTimer
    /\ last' = Event("unmount")
    /\ UNCHANGED <<now, stopID, session, startedAt, attempts, pending, store, animVars, pureVars>>

\* lines 32-35: the interval fires and calls tryUpdateStop
TimerFire ==
    /\ timer # NoTimer
    /\ now >= timer
    /\ timer' = timer + stopUpdateInterval
    /\ tryUpdateStop
    /\ last' = Event("tick")
    /\ UNCHANGED <<now, mounted, stopID, session, startedAt, store, animVars, pureVars>>

\* whether the response makes the fetch fail: a transport failure or an
\* application error message
IsFailure(resp) == resp.transport # "ok" \/ Truthy(resp.errorMessage)

\* the completion of updateArrivals' fetch: a fulfilled fetch is published to the
\* store under its stop, a rejected one is logged and the store left alone
PublishArrivals(fetch, outcome) ==
    IF outcome.state = "fulfilled"
    THEN [store EXCEPT ![fetch.stop] = outcome.value]
    ELSE store

\* the response to one of the pending fetches arrives, after any delay; the
\* fetch settles as FetchDining's does
Respond(fetch, resp) ==
    /\ fetch \in pending
    /\ pending' = pending \ {fetch}
    /\ store' = PublishArrivals(fetch, FetchDining(resp))
    /\ last' = [type |-> "response", stop |-> fetch.stop,
                late |-> (~mounted \/ fetch.session # session),
                failed |-> IsFailure(resp)]
    /\ UNCHANGED <<now, mounted, stopID, timer, session, startedAt, attempts, animVars, pureVars>>

-----------------------------------------------------------------------------
(* util/general: the reload animation, Animated.timing on the indicator's value *)

\* an Animated.Value with no animation running on it
Resting(v) == [value |-> v, running |-> FALSE, from |-> v, to |-> v,
               start |-> 0, dur |-> 0]

\* Animated.timing(anim, {toValue, duration, easing: Easing.linear}).start() at
\* time t: the animation running on the value is stopped and replaced; a zero
\* duration sets the value at once, any other ramps from the value as it is
TimingStart(a, toValue, duration, t) ==
    IF duration = 0 THEN Resting(toValue)
    ELSE [value |-> a.value, running |-> TRUE, from |-> a.value, to |-> toValue,
          start |-> t, dur |-> duration]

\* the value a linear ramp has reached after `elapsed` of its `duration`
Linear(from, to, elapsed, duration) ==
    from + ((to - from) * elapsed) \div duration

\* the animated value as the clock reaches t
AnimAt(a, t) ==
    IF ~a.running THEN a
    ELSE IF t - a.start >= a.dur THEN Resting(a.to)
    ELSE [a EXCEPT !.value = Linear(a.from, a.to, t - a.start, a.dur)]

startReloadAnimationFromZero(a, t) ==
    TimingStart(Resting(0), 100, 60000, t)

\* lines 142-144
startReloadAnimation(a, t) ==
    TimingStart(a, 100, 60000, t)

\* lines 133-135
startReloadAnimation2(a, toVal, duration, t) ==
    TimingStart(a, toVal, duration, t)

stopReloadAnimationLeavesRamp(a, t) ==
    [a EXCEPT !.value = 0, !.from = 0, !.start = t]

\* lines 151-153
stopReloadAnimation(a, t) ==
    TimingStart(a, 0, 0, t)

ToValues == {50, 100}
Durations == {stopUpdateInterval}

MaxAnimCalls == 2

\* the call being made now: which, with what target and duration, on what value
AnimCall(op, toVal, duration) ==
    [op |-> op, to |-> toVal, dur |-> duration, at |-> now,
     valueAtCall |-> anim.value, n |-> animOp.n + 1]

NoAnimCall == [op |-> "none", to |-> 0, dur |-> 0, at |-> 0, valueAtCall |-> 0, n |-> 0]

StartReloadAnimation ==
    /\ animOp.n < MaxAnimCalls
    /\ anim' = startReloadAnimation(anim, now)
    /\ animOp' = AnimCall("start", 100, 60000)
    /\ UNCHANGED <<now, viewVars, last, pureVars>>

StartReloadAnimation2(toVal, duration) ==
    /\ animOp.n < MaxAnimCalls
    /\ anim' = startReloadAnimation2(anim, toVal, duration, now)
    /\ animOp' = AnimCall("start", toVal, duration)
    /\ UNCHANGED <<now, viewVars, last, pureVars>>

StopReloadAnimation ==
    /\ animOp.n < MaxAnimCalls
    /\ anim' = stopReloadAnimation(anim, now)
    /\ animOp' = AnimCall("stop", 0, 0)
    /\ UNCHANGED <<now, viewVars, last, pureVars>>

\* the clock moves on by Step; an interval that is due fires first
Advance ==
    /\ now + Step <= MaxSteps * Step
    /\ timer = NoTimer \/ now < timer
    /\ now' = now + Step
    /\ anim' = AnimAt(anim, now')
    /\ last' = Event("advance")
    /\ UNCHANGED <<viewVars, animOp, pureVars>>

-----------------------------------------------------------------------------
(* Specifications *)

ViewIdle ==
    /\ now = 0
    /\ mounted = FALSE
    /\ stopID = NoStop
    /\ timer = NoTimer
    /\ session = 0
    /\ startedAt = 0
    /\ attempts = 0
    /\ pending = {}
    /\ store = [s \in Stops |-> Absent]
    /\ last = Event("init")

AnimIdle == anim = Resting(0) /\ animOp = NoAnimCall

\* the polling view, the arrivals store and the network
Init == TfIdle /\ SrIdle /\ FIdle /\ ViewIdle /\ AnimIdle

Next ==
    \/ \E sid \in Stops : Mount(sid)
    \/ Unmount
    \/ TimerFire
    \/ Advance
    \/ \E fetch \in pending, resp \in PollResponses : Respond(fetch, resp)

Spec == Init /\ [][Next]_vars

\* the polling view's timer together with the reload indicator
NextIndicator ==
    \/ \E sid \in Stops : Mount(sid)
    \/ Unmount
    \/ TimerFire
    \/ Advance
    \/ StartReloadAnimation
    \/ \E toVal \in ToValues, duration \in Durations :
          StartReloadAnimation2(toVal, duration)
    \/ StopReloadAnimation

SpecIndicator == Init /\ [][NextIndicator]_vars

\* militaryToAMPM applied to one input
InitTime ==
    /\ tfIn \in WellFormedTimes \cup ShortTimes
    /\ tfOut = NoOutput
    /\ tfPc = "ready"
    /\ SrIdle /\ FIdle /\ ViewIdle /\ AnimIdle

NextTime == Convert /\ UNCHANGED <<srVars, fVars, now, viewVars, last, animVars>>

SpecTime == InitTime /\ [][NextTime]_vars

\* one ranking of one sequence
InitRank ==
    /\ srIn \in EntitySequences
    /\ srOut = NoRanking
    /\ srPc = "ready"
    /\ TfIdle /\ FIdle /\ ViewIdle /\ AnimIdle

NextRank == Rank /\ UNCHANGED <<tfVars, fVars, now, viewVars, last, animVars>>

SpecRank == InitRank /\ [][NextRank]_vars

\* one call of FetchDining against one response
InitFetch ==
    /\ fResp \in Responses
    /\ fPc = "idle"
    /\ fRequests = 0
    /\ fOutcome = Pending
    /\ TfIdle /\ SrIdle /\ ViewIdle /\ AnimIdle

NextFetch == FetchCall \/ FetchSettle

SpecFetch == InitFetch /\ [][NextFetch]_vars

-----------------------------------------------------------------------------
(* Claims about the polling view (specification Spec) *)

\* C1: for one poll session at most one fetch is outstanding at any instant: a
\* tick that fires while the previous tick's fetch is still in flight is skipped,
\* so the fetches issued and not completed never number more than one.
AtMostOneFetchOutstanding ==
    \A f \in pending, g \in pending : f.session = g.session => f = g

\* C2: the response to a fetch whose session has been stopped, or superseded by
\* a later start, is dropped: it leaves the stored arrivals as they were.
LateResponseDropped ==
    [][(last'.type = "response" /\ last'.late) => store' = store]_vars

\* C3, as claimed: starting the session triggers one poll attempt at once, so a
\* mounted view has made a poll attempt before any interval has elapsed.
FirstPollAtStart == mounted => attempts >= 1

\* C3, amended: starting the session arms the repeating timer and triggers no
\* poll attempt itself; the n-th poll attempt of a session happens n * 6000 ms
\* after the start, the first at 6000 ms and none at time 0.
PollsOnlyOnIntervals ==
    mounted => /\ timer = startedAt + (attempts + 1) * stopUpdateInterval
               /\ now <= timer

FirstPollWitness ==
    /\ mounted
    /\ last.type = "tick"
    /\ attempts = 1
    /\ now = startedAt + stopUpdateInterval

\* C4: a fetch that fails, by a transport error or an application error, leaves
\* the stored arrivals unchanged and does not stop the session: the timer stays
\* armed as it was, and a tick issues a new fetch for the view's stop.
FailedFetchKeepsStoreAndSession ==
    /\ [][(last'.type = "response" /\ last'.failed)
             => (store' = store /\ timer' = timer /\ mounted' = mounted)]_vars
    /\ [][last'.type = "tick"
             => \E f \in pending' \ pending : f.stop = stopID /\ f.at = now]_vars

FailedFetchWitness ==
    /\ last.type = "response"
    /\ last.failed
    /\ ~last.late
    /\ mounted
    /\ timer = startedAt + (attempts + 1) * stopUpdateInterval
    /\ store[last.stop] # Absent

-----------------------------------------------------------------------------
(* Claims about the reload indicator (specification SpecIndicator) *)

\* the value of a linear ramp from `from` to `to`, `elapsed` after its start
RampValue(from, to, elapsed, duration) ==
    IF elapsed >= duration THEN to ELSE Linear(from, to, elapsed, duration)

-----------------------------------------------------------------------------
(* Claims about FetchDining (specification SpecFetch) *)

\* C6: the fetcher makes one request and never a second; a transport failure
\* makes it fail; otherwise the error message is looked at first: a non-empty
\* one makes the fetch fail with that message, whether or not a result is
\* beside it, and without one the fetch returns the result field as it is.
FetchDecidedByErrorMessageFirst ==
    /\ fRequests <= 1
    /\ fPc = "settled" =>
         /\ fRequests = 1
         /\ fResp.transport # "ok" => fOutcome.state = "rejected"
         /\ (fResp.transport = "ok" /\ fResp.errorMessage \notin {Absent, ""})
               => fOutcome = Rejected(fResp.errorMessage)
         /\ (fResp.transport = "ok" /\ fResp.errorMessage \in {Absent, ""})
               => fOutcome = Fulfilled(fResp.result)

FetchErrorBesideResultWitness ==
    /\ fPc = "settled"
    /\ fResp = [transport |-> "ok", errorMessage |-> "no data", result |-> "r1"]
    /\ fOutcome = Rejected("no data")

-----------------------------------------------------------------------------
(* Claims about militaryToAMPM (specification SpecTime) *)

Chars4(a, b, c, d) == <<a, b, c, d>>

\* C7: for every well-formed "HHMM" or "HH:MM" the result is the 12-hour hour,
\* the minutes unless they are "00", and "am" below 12 and "pm" from 12 on;
\* "0900" gives "9am", "1430" "2:30pm", "0005" "12:05am" and "1200" "12pm".
WellFormedTimeDisplay ==
    tfPc = "done" =>
      /\ IsWellFormedTime(tfIn) => tfOut = Returned(DisplayOf(tfIn))
      /\ tfIn = Chars4("0", "9", "0", "0") => tfOut = Returned(<<"9", "a", "m">>)
      /\ tfIn = Chars4("1", "4", "3", "0")
            => tfOut = Returned(<<"2", ":", "3", "0", "p", "m">>)
      /\ tfIn = Chars4("0", "0", "0", "5")
            => tfOut = Returned(<<"1", "2", ":", "0", "5", "a", "m">>)
      /\ tfIn = Chars4("1", "2", "0", "0") => tfOut = Returned(<<"1", "2", "p", "m">>)

AfternoonTimeWitness ==
    /\ tfPc = "done"
    /\ tfIn = <<"1", "4", ":", "3", "0">>
    /\ tfOut = Returned(<<"2", ":", "3", "0", "p", "m">>)

\* C8: militaryToAMPM never throws: the empty string gives the empty string, and
\* a non-empty input whose normalized form has fewer than 3 characters gives a
\* string back.
MilitaryToAMPMNeverThrows ==
    tfPc = "done" =>
      /\ tfIn = <<>> => tfOut = Returned(<<>>)
      /\ IsShortTime(tfIn) => tfOut.kind = "return"

-----------------------------------------------------------------------------
(* Claims about the ranking (specification SpecRank) *)

IsAscending(s) ==
    \A i \in 1..Len(s), j \in 1..Len(s) : i < j => s[i].distance <= s[j].distance

\* every input element appears exactly once in s
IsPermutationOfInput(s) ==
    /\ Len(s) = Len(srIn)
    /\ \A i \in 1..Len(srIn) : \E j \in 1..Len(s) : s[j] = srIn[i]

\* elements of equal distance are in their input order
KeepsInputOrderOfTies(s) ==
    \A i \in 1..Len(s), j \in 1..Len(s) :
        (i < j /\ s[i].distance = s[j].distance) => s[i].id < s[j].id

Sign(a, b) == IF a < b THEN -1 ELSE IF a > b THEN 1 ELSE 0

\* C9: ranking with sortNearbyMarkers, or with dynamicSort('distance'), gives a
\* permutation of the input in ascending order of distance, ties in input
\* order, the empty and one-element inputs included; each comparator is -1, 1
\* or 0 as a.distance is below, above or equal to b.distance.
RankIsStableAscendingPermutation ==
    /\ srPc = "done" =>
         /\ IsPermutationOfInput(srOut.byMarkers)
         /\ IsAscending(srOut.byMarkers)
         /\ KeepsInputOrderOfTies(srOut.byMarkers)
         /\ srOut.byDynamic = srOut.byMarkers
         /\ Len(srIn) <= 1 => srOut.byMarkers = srIn
    /\ \A i \in 1..Len(srIn), j \in 1..Len(srIn) :
         /\ sortNearbyMarkers(srIn[i], srIn[j])
               = Sign(srIn[i].distance, srIn[j].distance)
         /\ dynamicSort("distance", srIn[i], srIn[j])
               = Sign(srIn[i].distance, srIn[j].distance)

RankReordersWitness ==
    /\ srPc = "done"
    /\ Len(srIn) = 4
    /\ srIn[1].distance = 2 /\ srIn[2].distance = 1
    /\ srIn[3].distance = 2 /\ srIn[4].distance = 1
    /\ srOut.byMarkers = <<srIn[2], srIn[4], srIn[1], srIn[3]>>

=============================================================================
